---------------------------- MODULE Spec2Model ----------------------------
(***************************************************************************)
(* The value-conversion engine of bcf.core.mongo (utils.py):               *)
(* recursive_convert_to and recursive_convert_from, executed on a model of *)
(* the Python object heap, so that object identity (a freshly built        *)
(* container against one that is passed through) and mutation of the       *)
(* argument are observable.                                                *)
(*                                                                         *)
(* A value is either an immediate scalar (a record with a "kind") or a     *)
(* reference Ref(a) to the container object stored at address a of the     *)
(* heap.  A heap is a sequence of container objects; allocation appends.   *)
(*                                                                         *)
(* On top of the converters: the collection handle SyncMongoCollection     *)
(* (sync_collection.py) over a driver collection, and the client registry  *)
(* MongoClient (client.py).  Each part has a specification of its own:     *)
(*   Spec         one call of a converter on an input value                *)
(*   SpecHandles  handles are made and their document type is read         *)
(*   SpecFacade   the write operations and find_one of one handle          *)
(*   SpecFind     inserts, find_one, and the generators of find            *)
(*   SpecThreads  threads reading _document_model at the same time         *)
(*   SpecWrites   the operations of SpecFacade, and _document_model reads  *)
(*   SpecClients  accesses to the driver clients of the registry           *)
(***************************************************************************)
EXTENDS Integers, Sequences, FiniteSets, TLC

(***************************************************************************)
(* Bounds of the model.                                                    *)
(***************************************************************************)
\* longest list, tuple, set and mapping of the flat inputs
MaxLen == 2
\* deepest nesting of containers in the nested inputs
MaxDepth == 3
\* bytes of an identifier in the model (16 in the program)
UuidLen == 2
\* values of one byte in the model (256 in the program)
ByteBase == 4

(***************************************************************************)
(* Values: the scalars of utils.py's type tests.                           *)
(***************************************************************************)
\* bson's UUID_SUBTYPE, the subtype bson.Binary.from_uuid writes by default
UUID_SUBTYPE == 4

IntV(n) == [kind |-> "int", val |-> n]
StrV(s) == [kind |-> "str", val |-> s]
BoolV(b) == [kind |-> "bool", val |-> b]
NoneV == [kind |-> "none"]
\* uuid.UUID, held as its integer
UUID(n) == [kind |-> "uuid", int |-> n]
\* bson.Binary(data, subtype)
Binary(data, subtype) == [kind |-> "binary", data |-> data, subtype |-> subtype]
\* a member of an enum.Enum class: its symbolic name and its associated value
EnumMember(cls, name, value) == [kind |-> "enum", cls |-> cls, name |-> name, value |-> value]
\* datetime.datetime: the wall-clock fields and tzinfo ("none" for a naive one)
Datetime(wall, tz) == [kind |-> "datetime", wall |-> wall, tzinfo |-> tz]
\* pydantic_core.Url (cls = "Url") and pydantic.AnyHttpUrl (cls = "AnyHttpUrl")
UrlV(cls, text) == [kind |-> "url", cls |-> cls, text |-> text]
\* an object of a type no rule of utils.py tests for (date, Decimal, frozenset...)
Other(cls, val) == [kind |-> "other", cls |-> cls, val |-> val]
\* a reference to the container object at address a of the heap
Ref(a) == [kind |-> "ref", addr |-> a]

Wall(y, mo, d, h, mi, s) == [year |-> y, month |-> mo, day |-> d, hour |-> h, minute |-> mi, second |-> s]

\* utcoffset of a tzinfo, in hours
UtcOffset(tz) == CASE tz = "utc" -> 0 [] tz = "msk" -> 3 [] OTHER -> 0

(***************************************************************************)
(* Container objects (heap objects, and the nodes of a value tree).        *)
(* A dict keeps its items in insertion order, a set in its table order.    *)
(***************************************************************************)
DictObj(keys, vals) == [kind |-> "dict", keys |-> keys, vals |-> vals]
ListObj(elems) == [kind |-> "list", elems |-> elems]
TupleObj(elems) == [kind |-> "tuple", elems |-> elems]
SetObj(elems) == [kind |-> "set", elems |-> elems]
\* an instance of the pydantic model cls; vals are its field values in declaration order
ModelObj(cls, vals) == [kind |-> "model", cls |-> cls, vals |-> vals]

\* the declared fields of the document models: in-memory name and storage alias
Schema(cls) ==
  CASE cls = "MyModel" ->
         << [name |-> "field_one", alias |-> "fieldOne"],
            [name |-> "field_two", alias |-> "field_two"] >>
    [] cls = "UserModel" ->
         << [name |-> "id", alias |-> "_id"],
            [name |-> "name", alias |-> "name"],
            [name |-> "created_at", alias |-> "created_at"] >>

FieldNames(cls) == [i \in 1..Len(Schema(cls)) |-> Schema(cls)[i].name]
FieldAliases(cls) == [i \in 1..Len(Schema(cls)) |-> Schema(cls)[i].alias]

Range(s) == {s[i] : i \in 1..Len(s)}

(***************************************************************************)
(* The heap.                                                               *)
(***************************************************************************)
IsRef(v) == v.kind = "ref"

\* building a new object: it gets an address no object of h has
Alloc(h, obj) == [h |-> Append(h, obj), v |-> Ref(Len(h) + 1)]

\* the type tests without "and value.tzinfo is None"
IsInstanceAnyDatetime(h, v, T) ==
  IF IsRef(v) THEN h[v.addr].kind = T
  ELSE CASE T = "naive_datetime" -> v.kind = "datetime"
         [] T = "Url" -> v.kind = "url" /\ v.cls = "Url"
         [] T = "AnyHttpUrl" -> v.kind = "url" /\ v.cls = "AnyHttpUrl"
         [] OTHER -> v.kind = T

\* isinstance(value, T) for the types utils.py tests
IsInstance(h, v, T) ==
  IF IsRef(v) THEN h[v.addr].kind = T
  ELSE CASE T = "naive_datetime" -> v.kind = "datetime" /\ v.tzinfo = "none"
         [] T = "Url" -> v.kind = "url" /\ v.cls = "Url"
         [] T = "AnyHttpUrl" -> v.kind = "url" /\ v.cls = "AnyHttpUrl"
         [] OTHER -> v.kind = T

(***************************************************************************)
(* The conversions of single values.                                       *)
(***************************************************************************)
\* the integer as UuidLen bytes, least significant first
UuidBytesLittleEndian(u) == [i \in 1..UuidLen |-> (u.int \div (ByteBase ^ (i - 1))) % ByteBase]

\* uuid.UUID.bytes: the integer as UuidLen bytes, most significant first
UuidBytes(u) == [i \in 1..UuidLen |-> (u.int \div (ByteBase ^ (UuidLen - i))) % ByteBase]

\* bson.Binary.from_uuid(value), standard representation
from_uuid(v) == Binary(UuidBytes(v), UUID_SUBTYPE)

\* value.name of an enum member
EnumName(v) == StrV(v.name)

\* value.value of an enum member
EnumValue(v) == v.value

\* value.astimezone(timezone.utc): the same instant on the UTC wall clock (a
\* naive value is read as local time, here that of the zone "msk")
AsTimezoneUtc(v) ==
  LET off == IF v.tzinfo = "none" THEN UtcOffset("msk") ELSE UtcOffset(v.tzinfo)
      hours == v.wall.day * 24 + v.wall.hour - off
  IN  [v EXCEPT !.tzinfo = "utc",
                !.wall = [v.wall EXCEPT !.day = hours \div 24, !.hour = hours % 24]]

\* the naive timestamp left as it is
KeepNaive(v) == v

\* value.replace(tzinfo=timezone.utc)
ReplaceTzUtc(v) == [v EXCEPT !.tzinfo = "utc"]

\* str(value) of a URL
UrlStr(v) == StrV(v.text)

\* raising instead of returning: a converter that rejects what it does not know
RaiseTypeError(v) == [kind |-> "raise", exc |-> "TypeError"]

\* the last line of recursive_convert_to: return value
ReturnUnchanged(v) == v

\* int.from_bytes(data, "big")
RECURSIVE IntFromBytes(_)
IntFromBytes(data) ==
  IF data = << >> THEN 0
  ELSE IntFromBytes(SubSeq(data, 1, Len(data) - 1)) * ByteBase + data[Len(data)]

\* a reader that decodes a UUID binary back into a uuid.UUID
DecodeUuidBinary(v) ==
  IF v.kind = "binary" /\ v.subtype = UUID_SUBTYPE THEN UUID(IntFromBytes(v.data)) ELSE v

\* return value.replace(tzinfo=None): a timestamp is handed back naive
ReturnNaive(v) == IF v.kind = "datetime" THEN [v EXCEPT !.tzinfo = "none"] ELSE v

\* the last line of recursive_convert_from: return value
ReturnValue(v) == v

\* value[k] = ... for each key: the dict v itself, its values overwritten
UpdateDictInPlace(h, v, vals) == [h |-> [h EXCEPT ![v.addr].vals = vals], v |-> v]

\* a new dict whose keys are renamed to the aliases of the MyModel fields
BuildDictAliasKeys(h, v, vals) ==
  LET ks == h[v.addr].keys IN
  Alloc(h, DictObj([i \in 1..Len(ks) |->
                      IF ks[i] = "field_one" THEN "fieldOne" ELSE ks[i]], vals))

\* {k: ... for k, v in value.items()}: a new dict with the keys of the dict v
\* and the converted values vals
BuildDict(h, v, vals) == Alloc(h, DictObj(h[v.addr].keys, vals))

\* type(value)(...): a new container of the kind of v
BuildSameKind(h, v, elems) == Alloc(h, [h[v.addr] EXCEPT !.elems = elems])

\* the elements of s, each value at its first place only
RECURSIVE Deduplicated(_)
Deduplicated(s) ==
  IF s = << >> THEN << >>
  ELSE LET d == Deduplicated(SubSeq(s, 1, Len(s) - 1)) IN
       IF s[Len(s)] \in Range(d) THEN d ELSE Append(d, s[Len(s)])

\* list(dict.fromkeys(...)): a new list of the converted elements without
\* the values that are equal to an earlier one
BuildListDeduplicated(h, v, elems) == Alloc(h, ListObj(Deduplicated(elems)))

\* a new list of the converted elements, last element first
BuildListReversed(h, v, elems) ==
  Alloc(h, ListObj([i \in 1..Len(elems) |-> elems[Len(elems) + 1 - i]]))

\* [... for v in value]: a new list of the converted elements of the list,
\* tuple or set v
BuildList(h, v, elems) == Alloc(h, ListObj(elems))

(***************************************************************************)
(* value.model_dump(by_alias=True) of pydantic, python mode: a new dict    *)
(* keyed by the fields' aliases; nested models are dumped the same way,    *)
(* dicts, lists, tuples and sets are rebuilt with their kind kept, every   *)
(* other value is kept as it is.                                           *)
(***************************************************************************)
RECURSIVE model_dump(_, _), DumpValue(_, _), DumpEach(_, _)

\* by_alias=False: the dump keyed by the in-memory field names
DumpKeysByName(cls) == FieldNames(cls)

\* by_alias=True: the keys of the dump are the fields' aliases
DumpKeys(cls) == FieldAliases(cls)

DumpEach(h, vs) ==
  IF vs = <<>> THEN [h |-> h, vs |-> <<>>]
  ELSE LET first == DumpValue(h, Head(vs))
           rest == DumpEach(first.h, Tail(vs))
       IN  [h |-> rest.h, vs |-> <<first.v>> \o rest.vs]

DumpValue(h, v) ==
  IF ~IsRef(v) THEN [h |-> h, v |-> v]
  ELSE LET o == h[v.addr] IN
       CASE o.kind = "model" -> model_dump(h, v)
         [] o.kind = "dict" ->
              LET r == DumpEach(h, o.vals) IN Alloc(r.h, DictObj(o.keys, r.vs))
         [] OTHER ->
              LET r == DumpEach(h, o.elems) IN Alloc(r.h, [o EXCEPT !.elems = r.vs])

model_dump(h, v) ==
  LET o == h[v.addr]
      r == DumpEach(h, o.vals)
  IN  Alloc(r.h, DictObj(DumpKeys(o.cls), r.vs))

(***************************************************************************)
(* recursive_convert_to(value), utils.py 31-48.  The call runs on heap h   *)
(* and yields the heap after the call and the returned value.              *)
(***************************************************************************)
\* [v for v in value]: the elements as they are, not converted
KeepEach(h, vs) == [h |-> h, vs |-> vs]

RECURSIVE recursive_convert_to(_, _), ConvertEachTo(_, _)

\* the calls recursive_convert_to(v) for v in vs, in iteration order
ConvertEachTo(h, vs) ==
  IF vs = <<>> THEN [h |-> h, vs |-> <<>>]
  ELSE LET first == recursive_convert_to(h, Head(vs))
           rest == ConvertEachTo(first.h, Tail(vs))
       IN  [h |-> rest.h, vs |-> <<first.v>> \o rest.vs]

recursive_convert_to(h, value) ==
  IF IsInstance(h, value, "dict") THEN
    LET r == ConvertEachTo(h, h[value.addr].vals) IN BuildDict(r.h, value, r.vs)
  ELSE IF \/ IsInstance(h, value, "list")
          \/ IsInstance(h, value, "tuple")
          \/ IsInstance(h, value, "set") THEN
    LET r == ConvertEachTo(h, h[value.addr].elems) IN BuildList(r.h, value, r.vs)
  ELSE IF IsInstance(h, value, "model") THEN
    LET d == model_dump(h, value) IN recursive_convert_to(d.h, d.v)
  ELSE IF IsInstance(h, value, "uuid") THEN [h |-> h, v |-> from_uuid(value)]
  ELSE IF IsInstance(h, value, "enum") THEN [h |-> h, v |-> EnumValue(value)]
  ELSE IF IsInstance(h, value, "naive_datetime") THEN [h |-> h, v |-> ReplaceTzUtc(value)]
  ELSE IF IsInstance(h, value, "Url") THEN [h |-> h, v |-> UrlStr(value)]
  ELSE IF IsInstance(h, value, "AnyHttpUrl") THEN [h |-> h, v |-> UrlStr(value)]
  ELSE [h |-> h, v |-> ReturnUnchanged(value)]

(***************************************************************************)
(* recursive_convert_from(value), utils.py 68-74.                          *)
(***************************************************************************)
\* a reader that hands the driver's document on as it is
ReturnSame(h, value) == [h |-> h, v |-> value]

RECURSIVE recursive_convert_from(_, _), ConvertEachFrom(_, _)

ConvertEachFrom(h, vs) ==
  IF vs = <<>> THEN [h |-> h, vs |-> <<>>]
  ELSE LET first == recursive_convert_from(h, Head(vs))
           rest == ConvertEachFrom(first.h, Tail(vs))
       IN  [h |-> rest.h, vs |-> <<first.v>> \o rest.vs]

recursive_convert_from(h, value) ==
  IF IsInstance(h, value, "dict") THEN
    LET r == ConvertEachFrom(h, h[value.addr].vals) IN BuildDict(r.h, value, r.vs)
  ELSE IF \/ IsInstance(h, value, "list")
          \/ IsInstance(h, value, "tuple")
          \/ IsInstance(h, value, "set") THEN
    LET r == ConvertEachFrom(h, h[value.addr].elems) IN BuildList(r.h, value, r.vs)
  ELSE IF IsInstance(h, value, "naive_datetime")
       THEN [h |-> h, v |-> ReturnValue(ReplaceTzUtc(value))]
  ELSE [h |-> h, v |-> ReturnValue(value)]

(***************************************************************************)
(* Value trees: a container node holds its children themselves.  Load      *)
(* builds the objects of a tree on a heap, children first; Deref reads the *)
(* tree a value stands for.                                                *)
(***************************************************************************)
IsContainer(t) == t.kind \in {"dict", "list", "tuple", "set", "model"}
Children(t) == IF t.kind \in {"dict", "model"} THEN t.vals ELSE t.elems
WithChildren(t, cs) == IF t.kind \in {"dict", "model"} THEN [t EXCEPT !.vals = cs]
                       ELSE [t EXCEPT !.elems = cs]

RECURSIVE Load(_, _), LoadEach(_, _)

LoadEach(h, ts) ==
  IF ts = <<>> THEN [h |-> h, vs |-> <<>>]
  ELSE LET first == Load(h, Head(ts))
           rest == LoadEach(first.h, Tail(ts))
       IN  [h |-> rest.h, vs |-> <<first.v>> \o rest.vs]

Load(h, t) ==
  IF IsContainer(t) THEN
    LET r == LoadEach(h, Children(t)) IN Alloc(r.h, WithChildren(t, r.vs))
  ELSE IF t.kind = "enum" THEN
    LET r == Load(h, t.value) IN [h |-> r.h, v |-> [t EXCEPT !.value = r.v]]
  ELSE [h |-> h, v |-> t]

RECURSIVE Deref(_, _)

Deref(h, v) ==
  IF IsRef(v) THEN
    LET o == h[v.addr] IN
    WithChildren(o, [i \in 1..Len(Children(o)) |-> Deref(h, Children(o)[i])])
  ELSE IF v.kind = "enum" THEN [v EXCEPT !.value = Deref(h, v.value)]
  ELSE v

(***************************************************************************)
(* The inputs of the calls.                                                *)
(***************************************************************************)
T1 == Wall(2023, 1, 1, 10, 30, 0)
T2 == Wall(2023, 1, 2, 1, 0, 0)

\* MyEnum of the tests, and enum classes whose values are not strings
MyEnumA == EnumMember("MyEnum", "A", StrV("a"))
MyEnumB == EnumMember("MyEnum", "B", StrV("b"))
KindID == EnumMember("Kind", "ID", UUID(6))
ShapeSQ == EnumMember("Shape", "SQ", TupleObj(<< IntV(7), Datetime(T1, "none") >>))

Scalars ==
  { IntV(7), StrV("a"), NoneV, BoolV(TRUE),
    UUID(6), Binary(UuidBytes(UUID(6)), UUID_SUBTYPE),
    MyEnumA, KindID, ShapeSQ,
    Datetime(T1, "none"), Datetime(T1, "utc"), Datetime(T2, "msk"),
    UrlV("Url", "https://example.com/path?query=1"),
    UrlV("AnyHttpUrl", "https://example.com/path?query=1"),
    Other("date", 1) }

CoreScalars ==
  { StrV("b"), UUID(1), MyEnumB, KindID, Datetime(T2, "none"), Datetime(T1, "msk"),
    UrlV("Url", "https://example.com/") }

AllUuids == { UUID(n) : n \in 0..(ByteBase ^ UuidLen - 1) }

Keys == << "field_one", "b", "c", "d" >>

SeqsUpTo(S, n) == UNION { [1..k -> S] : k \in 0..n }
IsInjective(s) == \A i, j \in 1..Len(s) : s[i] = s[j] => i = j

FlatInputs ==
  LET seqs == SeqsUpTo(Scalars, MaxLen) IN
       { ListObj(s) : s \in seqs }
  \cup { TupleObj(s) : s \in seqs }
  \cup { SetObj(s) : s \in { q \in seqs : IsInjective(q) } }
  \cup { DictObj(SubSeq(Keys, 1, Len(s)), s) : s \in seqs }
  \cup { ModelObj("MyModel", s) : s \in [1..2 -> Scalars] }
  \cup { ModelObj("UserModel", << u, StrV("Alice"), t >>) :
            u \in {UUID(1), UUID(6)},
            t \in {Datetime(T1, "none"), Datetime(T1, "utc"), Datetime(T2, "msk")} }

RECURSIVE Hashable(_), Dumpable(_), HasModel(_)

\* a set holds hashable values only: scalars, tuples of them, frozen models of them
Hashable(t) ==
  IF t.kind \in {"tuple", "model"}
  THEN \A i \in 1..Len(Children(t)) : Hashable(Children(t)[i])
  ELSE ~IsContainer(t)

HasModel(t) ==
  /\ IsContainer(t)
  /\ \/ t.kind = "model"
     \/ \E i \in 1..Len(Children(t)) : HasModel(Children(t)[i])

\* pydantic cannot dump a set of models (a set of dicts does not exist)
Dumpable(t) ==
  /\ t.kind = "set" => ~HasModel(t)
  /\ IsContainer(t) => \A i \in 1..Len(Children(t)) : Dumpable(Children(t)[i])

Wrap(x) ==
       { ListObj(<< x, IntV(7) >>), TupleObj(<< x >>), DictObj(<< "b" >>, << x >>) }
  \cup (IF Hashable(x) THEN { SetObj(<< NoneV, x >>) } ELSE {})
  \cup (IF Dumpable(x)
        THEN { ModelObj("MyModel", << StrV("a"), x >>), ModelObj("MyModel", << x, IntV(7) >>) }
        ELSE {})

RECURSIVE Nested(_)
Nested(d) == IF d = 0 THEN CoreScalars ELSE UNION { Wrap(x) : x \in Nested(d - 1) }

NestedInputs == UNION { Nested(d) : d \in 1..MaxDepth }

Inputs == Scalars \cup CoreScalars \cup AllUuids \cup FlatInputs \cup NestedInputs

(***************************************************************************)
(* The state: the heap, the argument of the call, the value it returned,   *)
(* and which call has run.                                                 *)
(***************************************************************************)
\* the converters: the heap of Python objects, the argument and the result of
\* the call, and where the call stands
VARIABLES heap, arg, ret, pc

\* the collection handles: the handle objects (their generic metadata and the
\* memo of _document_model), the documents the driver's collection holds, the
\* generators find has returned, and what the last operation passed and got
VARIABLES handles, coll, gens, last

\* the threads that read _document_model of a handle at the same time
VARIABLES threads

\* the client registry: the two class-level dicts of MongoClient, the driver
\* clients constructed so far, and what the last access returned
VARIABLES a_mongo_clients, mongo_clients, built, got

convVars == << heap, arg, ret, pc >>
facadeVars == << handles, coll, gens, last >>
clientVars == << a_mongo_clients, mongo_clients, built, got >>

vars == << convVars, facadeVars, threads, clientVars >>

Unset == [kind |-> "unset"]

(***************************************************************************)
(* SyncMongoCollection: the handle object and its document model.          *)
(***************************************************************************)
\* how many times the body of _document_model may run on one handle
MaxReads == 2

Handles == {"h1", "h2"}
DocumentTypes == {"UserModel", "MyModel"}
HandleClasses == {"SyncMongoCollection", "AsyncMongoCollection"}

\* cls[M]: the generic alias typing builds for a subscripted class
GenericAlias(cls, args) == [kind |-> "alias", origin |-> cls, args |-> args]

\* typing.get_args
get_args(alias) == IF alias.kind = "alias" THEN alias.args ELSE << >>

TypeError(msg) == [kind |-> "error", type |-> "TypeError", msg |-> msg]
IsError(v) == v.kind = "error"

\* the two messages of _document_model: "cannot determine the document
\* model; make sure the class is parameterized: SyncMongoCollection[MyModel](...)"
\* and "could not extract the model type from the generic annotation"
MsgNotParameterized == "cannot determine the document model: parameterize the class"
MsgNoTypeArgs == "could not extract the model type from the generic annotation"

ClassV(name) == [kind |-> "class", name |-> name]

\* a handle that has not been constructed
NoHandle ==
  [made |-> FALSE, cls |-> "none", orig_class |-> Unset, memo |-> Unset, reads |-> 0]

\* cls(collection=...) and cls[M](collection=...): __init__ stores the
\* collection; typing sets __orig_class__ on the new object when, and only
\* when, the class was subscripted
NewHandle(cls, param) ==
  [made |-> TRUE,
   cls |-> cls,
   orig_class |-> IF param = "none" THEN Unset ELSE GenericAlias(cls, << param >>),
   memo |-> Unset,
   reads |-> 0]

\* a body that does not read the type argument: every parameterized handle
\* is bound to UserModel
DocumentModelFixed(hd) ==
  IF hd.orig_class = Unset THEN TypeError(MsgNotParameterized) ELSE ClassV("UserModel")

\* a body without the test for a missing __orig_class__
DocumentModelUnchecked(hd) ==
  LET type_args == get_args(hd.orig_class) IN
  IF type_args = << >> THEN TypeError(MsgNoTypeArgs) ELSE ClassV(type_args[1])

\* the body of SyncMongoCollection._document_model, run on the handle hd
DocumentModelBody(hd) ==
  LET orig_class == hd.orig_class IN
  IF orig_class = Unset THEN TypeError(MsgNotParameterized)
  ELSE LET type_args == get_args(orig_class) IN
       IF type_args = << >> THEN TypeError(MsgNoTypeArgs)
       ELSE ClassV(type_args[1])

\* AsyncMongoCollection._document_model: the type the handle was
\* parameterized with, or the error that asks to parameterize the class
AsyncDocumentModelBody(hd) ==
  IF hd.orig_class = Unset THEN TypeError(MsgNotParameterized)
  ELSE ClassV(hd.orig_class.args[1])

\* the body of _document_model of the class of the handle
Body(hd) ==
  IF hd.cls = "AsyncMongoCollection" THEN AsyncDocumentModelBody(hd)
  ELSE DocumentModelBody(hd)

\* a plain property: the body runs on every access and nothing is kept
PropertyGet(hd) ==
  [hd |-> [hd EXCEPT !.reads = @ + 1], val |-> Body(hd)]

\* the handle after a run of the body
BodyRun(hd) == [hd EXCEPT !.reads = @ + 1]

\* a store that leaves the instance dict as it is
StoreNothing(hd, val) == hd

\* cache[attrname] = val: the value goes in the dict of the instance
StoreMemo(hd, val) == [hd EXCEPT !.memo = val]

\* a memo that keeps whatever the body gave, the error it raised included
CachedPropertyGetKeepsError(hd) ==
  IF hd.memo # Unset THEN [hd |-> hd, val |-> hd.memo]
  ELSE LET val == Body(hd) IN [hd |-> StoreMemo(BodyRun(hd), val), val |-> val]

\* functools.cached_property: the value in the instance dict if there is one;
\* otherwise the body runs and its value, unless it raised, goes in the dict
CachedPropertyGet(hd) ==
  IF hd.memo # Unset THEN [hd |-> hd, val |-> hd.memo]
  ELSE LET val == Body(hd) IN
       [hd |-> IF IsError(val) THEN BodyRun(hd) ELSE StoreMemo(BodyRun(hd), val),
        val |-> val]

\* self._document_model
document_model(hd) == CachedPropertyGet(hd)


\* what an operation passed and got: the handle or generator it was called
\* on, its arguments, the arguments of the
\* driver call it made (sent), the document the driver returned (raw), the
\* argument of model_validate (validated), and what the operation returned
Trace(op, on, args, sent, raw, validated, r) ==
  [op |-> op, on |-> on, args |-> args, sent |-> sent, raw |-> raw,
   validated |-> validated, ret |-> r]

Args(filter, payload, array_filters) ==
  [filter |-> filter, payload |-> payload, array_filters |-> array_filters]

\* no operation has been called yet
NoTrace == Trace("none", "none", Args(Unset, Unset, Unset), Unset, Unset, Unset, Unset)

\* the generator objects find can return, and one that does not exist yet;
\* queries counts the calls of the driver's find the generator has made
Generators == {"g1", "g2"}
NoGenerator ==
  [state |-> "none", h |-> "none", filter |-> Unset, cursor |-> << >>, queries |-> 0]

\* the threads, and a thread that is not inside _document_model
Threads == {"t1", "t2"}
NoThread == [pc |-> "idle", h |-> "none", val |-> Unset, ret |-> Unset]

\* the configurations a MongoClient wrapper is made with, by their hash
Configs == {"cfgA", "cfgB"}

\* the parts of the state a specification does not use stay as they start
ConvertersUnused == heap = << >> /\ arg = Unset /\ ret = Unset /\ pc = "off"
FacadeUnused ==
  /\ handles = [h \in Handles |-> NoHandle]
  /\ coll = << >>
  /\ gens = [g \in Generators |-> NoGenerator]
  /\ last = NoTrace
ThreadsUnused == threads = [t \in Threads |-> NoThread]
ClientsUnused ==
  /\ a_mongo_clients = [k \in Configs |-> Unset]
  /\ mongo_clients = [k \in Configs |-> Unset]
  /\ built = << >>
  /\ got = Unset

Init ==
  \E t \in Inputs :
    LET l == Load(<< >>, t) IN
    /\ heap = l.h
    /\ arg = l.v
    /\ ret = Unset
    /\ pc = "ready"
    /\ FacadeUnused /\ ThreadsUnused /\ ClientsUnused

\* ret = recursive_convert_to(arg)
CallConvertTo ==
  /\ pc = "ready"
  /\ LET r == recursive_convert_to(heap, arg) IN
       /\ heap' = r.h
       /\ ret' = r.v
  /\ pc' = "to"
  /\ UNCHANGED << arg, facadeVars, threads, clientVars >>

\* ret = recursive_convert_from(arg)
CallConvertFrom ==
  /\ pc = "ready"
  /\ LET r == recursive_convert_from(heap, arg) IN
       /\ heap' = r.h
       /\ ret' = r.v
  /\ pc' = "from"
  /\ UNCHANGED << arg, facadeVars, threads, clientVars >>

Next == CallConvertTo \/ CallConvertFrom

Spec == Init /\ [][Next]_vars

\* the value trees of the argument and of the result
ArgTree == Deref(heap, arg)
RetTree == Deref(heap, ret)

TypeOK == pc \in {"ready", "to", "from"}

(***************************************************************************)
(* Reading results.                                                        *)
(***************************************************************************)
\* the addresses of the objects reachable from value v on heap h
RECURSIVE Reach(_, _)
Reach(h, v) ==
  IF IsRef(v) THEN
    {v.addr} \cup UNION { Reach(h, Children(h[v.addr])[i]) : i \in 1..Len(Children(h[v.addr])) }
  ELSE IF v.kind = "enum" THEN Reach(h, v.value)
  ELSE {}

\* the value tree that a call recursive_convert_to(t) of its own returns
ToTree(t) ==
  LET l == Load(<< >>, t)
      r == recursive_convert_to(l.h, l.v)
  IN  Deref(r.h, r.v)

HasKey(d, k) == \E i \in 1..Len(d.keys) : d.keys[i] = k
Lookup(d, k) == d.vals[CHOOSE i \in 1..Len(d.keys) : d.keys[i] = k]

(***************************************************************************)
(* C1.                                                                     *)
(***************************************************************************)
\* the objects of the heap before the step are the same after it
OldObjectsKept ==
  /\ Len(heap') >= Len(heap)
  /\ \A a \in 1..Len(heap) : heap'[a] = heap[a]

\* every dict, list and tuple of the result was built by the step
ResultBuiltNew ==
  \A a \in Reach(heap', ret') :
    heap'[a].kind \in {"dict", "list", "tuple"} => a > Len(heap)

\* C1: recursive_convert_to never mutates its input (every object of the
\* input is after the call what it was before) and every mapping and
\* sequence in the result is a newly built object, none of the input's.
C1_NoMutationAllNew ==
  [][pc' = "to" => OldObjectsKept /\ ResultBuiltNew]_vars

\* out is what the call built for v: where v is an enum member, the
\* member's value itself (the object it is, unchanged); where v is a dict,
\* list, tuple, set or record, a dict or list at an address that hOld does
\* not have, the same of its children
RECURSIVE BuiltNew(_, _, _, _)
BuiltNew(hOld, h, v, out) ==
  IF v.kind = "enum" THEN out = v.value
  ELSE IF IsRef(v) THEN
    /\ IsRef(out)
    /\ out.addr > Len(hOld)
    /\ h[out.addr].kind \in {"dict", "list"}
    /\ Len(Children(h[out.addr])) = Len(Children(hOld[v.addr]))
    /\ \A i \in 1..Len(Children(hOld[v.addr])) :
         BuiltNew(hOld, h, Children(hOld[v.addr])[i], Children(h[out.addr])[i])
  ELSE TRUE

\* C1 (amended): recursive_convert_to never mutates its input, and every
\* mapping and sequence it returns for a dict, list, tuple, set or record
\* of the input is a newly built object; the value of an enumerated
\* constant is returned as the object it is, not as a copy.
C1_NoMutationNewButEnumValues ==
  [][pc' = "to" => OldObjectsKept /\ BuiltNew(heap, heap', arg, ret')]_vars

\* a dict holding a container has been converted: the result is another
\* object and the dict is still what it was loaded as
C1_Witness ==
  /\ pc = "to"
  /\ IsRef(arg) /\ IsRef(ret)
  /\ heap[arg.addr].kind = "dict"
  /\ \E i \in 1..Len(heap[arg.addr].vals) : IsRef(heap[arg.addr].vals[i])
  /\ ret.addr > arg.addr
  /\ RetTree # ArgTree
  /\ Load(<< >>, ArgTree).h = SubSeq(heap, 1, arg.addr)

(***************************************************************************)
(* C2.                                                                     *)
(***************************************************************************)
\* out is what the record-bearing tree t must become: at every record of t,
\* a dict that maps each field's alias to the conversion of the field's
\* value and has no key that is an in-memory name differing from its alias
RECURSIVE AliasesHonoured(_, _)
AliasesHonoured(t, out) ==
  IF t.kind = "model" THEN
    /\ out.kind = "dict"
    /\ \A i \in 1..Len(Schema(t.cls)) :
         LET f == Schema(t.cls)[i] IN
         /\ HasKey(out, f.alias)
         /\ Lookup(out, f.alias) = ToTree(t.vals[i])
         /\ f.name # f.alias => ~HasKey(out, f.name)
         /\ AliasesHonoured(t.vals[i], Lookup(out, f.alias))
  ELSE IF IsContainer(t) THEN
    /\ out.kind \in {"dict", "list"}
    /\ Len(Children(out)) = Len(Children(t))
    /\ \A i \in 1..Len(Children(t)) : AliasesHonoured(Children(t)[i], Children(out)[i])
  ELSE TRUE

\* C2: for every record, recursive_convert_to(record) is a mapping that
\* contains, for a field internal_name with alias external_name and value
\* V, the key external_name mapped to recursive_convert_to(V) and not the
\* key internal_name; the same holds for the records nested inside it.
C2_AliasKeys ==
  pc = "to" /\ ArgTree.kind = "model" => AliasesHonoured(ArgTree, RetTree)

\* a MyModel whose field_two holds a MyModel has been converted
C2_Witness ==
  /\ pc = "to"
  /\ ArgTree.kind = "model" /\ ArgTree.cls = "MyModel"
  /\ ArgTree.vals[2].kind = "model"
  /\ RetTree.kind = "dict" /\ HasKey(RetTree, "fieldOne")
  /\ Lookup(RetTree, "field_two").kind = "dict"

(***************************************************************************)
(* C3.                                                                     *)
(***************************************************************************)
\* bson.Binary.as_uuid(): the UUID of a subtype 4 binary
as_uuid(b) == UUID(IntFromBytes(b.data))

\* C3: for every identifier U, recursive_convert_to(U) is a binary of
\* subtype 4 holding the big-endian bytes of U, and decoding it as a UUID
\* yields exactly U.
C3_UuidRoundTrip ==
  pc = "to" /\ arg.kind = "uuid" =>
    /\ ret.kind = "binary"
    /\ ret.subtype = 4
    /\ Len(ret.data) = UuidLen
    /\ \A i \in 1..UuidLen : ret.data[i] \in 0..(ByteBase - 1)
    /\ IntFromBytes(ret.data) = arg.int
    /\ as_uuid(ret) = arg

\* an identifier whose first and last bytes differ has been converted
C3_Witness ==
  /\ pc = "to"
  /\ arg.kind = "uuid"
  /\ ret.kind = "binary"
  /\ ret.data[1] # ret.data[UuidLen]

(***************************************************************************)
(* C4.                                                                     *)
(***************************************************************************)
\* wherever t holds an enum member (itself, or as a value in a dict, list,
\* tuple, set or record, at any depth), out holds the member's value
RECURSIVE EnumsFlattened(_, _)
EnumsFlattened(t, out) ==
  IF t.kind = "enum" THEN out = t.value /\ out # StrV(t.name)
  ELSE IF IsContainer(t) THEN
    /\ out.kind \in {"dict", "list"}
    /\ Len(Children(out)) = Len(Children(t))
    /\ \A i \in 1..Len(Children(t)) : EnumsFlattened(Children(t)[i], Children(out)[i])
  ELSE TRUE

\* C4: for every enumerated constant E, recursive_convert_to(E) equals the
\* value associated with E and never its symbolic name, also when E is a
\* value inside a mapping, a sequence or a record.
C4_EnumValue == pc = "to" => EnumsFlattened(ArgTree, RetTree)

\* a record holding an enum member in a field has been converted
C4_Witness ==
  /\ pc = "to"
  /\ ArgTree.kind = "model"
  /\ ArgTree.vals[2] = MyEnumB
  /\ RetTree.kind = "dict"
  /\ Lookup(RetTree, "field_two") = StrV("b")

(***************************************************************************)
(* C5 and C6.                                                              *)
(***************************************************************************)
IsNaive(v) == v.kind = "datetime" /\ v.tzinfo = "none"
IsAware(v) == v.kind = "datetime" /\ v.tzinfo # "none"

\* C5: for every timestamp T without a time zone, recursive_convert_to(T)
\* and recursive_convert_from(T) both return T with UTC attached, with
\* the year, month, day, hour, minute and second of T.
C5_NaiveGetsUtc ==
  pc \in {"to", "from"} /\ IsNaive(arg) =>
    /\ ret.kind = "datetime"
    /\ ret.tzinfo = "utc"
    /\ ret.wall.year = arg.wall.year /\ ret.wall.month = arg.wall.month
    /\ ret.wall.day = arg.wall.day /\ ret.wall.hour = arg.wall.hour
    /\ ret.wall.minute = arg.wall.minute /\ ret.wall.second = arg.wall.second

\* a naive timestamp has been read back by recursive_convert_from
C5_Witness ==
  /\ pc = "from"
  /\ IsNaive(arg)
  /\ arg.wall = T2
  /\ ret = Datetime(T2, "utc")

\* C6: for every timestamp T that carries a time zone, UTC or another,
\* recursive_convert_to(T) = T and recursive_convert_from(T) = T, and the
\* zone of the result is the zone of T.
C6_AwareUnchanged ==
  pc \in {"to", "from"} /\ IsAware(arg) => ret = arg /\ ret.tzinfo = arg.tzinfo

\* a timestamp in a zone other than UTC has been converted
C6_Witness ==
  /\ pc = "to"
  /\ IsAware(arg)
  /\ arg.tzinfo = "msk"
  /\ ret.tzinfo = "msk"

(***************************************************************************)
(* C7.                                                                     *)
(***************************************************************************)
\* C7: for every set S, recursive_convert_to(S) is a list, never a set,
\* whose elements, as a set, are the conversions of the elements of S.
C7_SetBecomesList ==
  pc = "to" /\ ArgTree.kind = "set" =>
    /\ RetTree.kind = "list"
    /\ Range(RetTree.elems) = { ToTree(x) : x \in Range(ArgTree.elems) }

\* a set of two elements, one of them changed by the conversion, has been converted
C7_Witness ==
  /\ pc = "to"
  /\ ArgTree.kind = "set"
  /\ Len(ArgTree.elems) = 2
  /\ UUID(6) \in Range(ArgTree.elems)
  /\ RetTree.kind = "list"
  /\ Len(RetTree.elems) = 2

(***************************************************************************)
(* C8.                                                                     *)
(***************************************************************************)
\* no node of t is a record, a set, a tuple, a UUID, an enum member or a
\* naive timestamp
RECURSIVE Normalized(_)
Normalized(t) ==
  /\ t.kind \notin {"model", "set", "tuple", "uuid", "enum"}
  /\ ~IsNaive(t)
  /\ IsContainer(t) => \A i \in 1..Len(Children(t)) : Normalized(Children(t)[i])

\* t holds an enum member whose value is not in storage form
RECURSIVE HasRawEnum(_)
HasRawEnum(t) ==
  \/ t.kind = "enum" /\ ~Normalized(t.value)
  \/ IsContainer(t) /\ \E i \in 1..Len(Children(t)) : HasRawEnum(Children(t)[i])

RECURSIVE NormalizedButEnumValues(_, _)
NormalizedButEnumValues(t, out) ==
  IF t.kind = "enum" THEN out = t.value
  ELSE IF IsContainer(t) THEN
    /\ out.kind \in {"dict", "list"}
    /\ Len(Children(out)) = Len(Children(t))
    /\ \A i \in 1..Len(Children(t)) :
         NormalizedButEnumValues(Children(t)[i], Children(out)[i])
  ELSE Normalized(out)

Unmatched(v) ==
  /\ v.kind \in {"int", "str", "bool", "none", "binary", "datetime", "other"}
  /\ ~IsNaive(v)

\* C9: for every value that is not a mapping, list, tuple, set, record,
\* UUID, enumerated constant, naive timestamp or URL, recursive_convert_to
\* returns that same value and raises no error.
C9_UnmatchedPassesThrough ==
  pc = "to" /\ Unmatched(arg) => ret = arg /\ ret.kind # "raise"

\* a value of a type utils.py does not know has been converted
C9_Witness ==
  /\ pc = "to"
  /\ arg = Other("date", 1)
  /\ ret = Other("date", 1)

(***************************************************************************)
(* C10.                                                                    *)
(***************************************************************************)
\* out is t with every dict rebuilt on the same keys, every list, tuple and
\* set made a list, every naive timestamp given UTC, and nothing else changed
RECURSIVE ReadBack(_, _)
ReadBack(t, out) ==
  IF t.kind = "dict" THEN
    /\ out.kind = "dict"
    /\ out.keys = t.keys
    /\ Len(out.vals) = Len(t.vals)
    /\ \A i \in 1..Len(t.vals) : ReadBack(t.vals[i], out.vals[i])
  ELSE IF t.kind \in {"list", "tuple", "set"} THEN
    /\ out.kind = "list"
    /\ Len(out.elems) = Len(t.elems)
    /\ \A i \in 1..Len(t.elems) : ReadBack(t.elems[i], out.elems[i])
  ELSE IF IsNaive(t) THEN out = Datetime(t.wall, "utc")
  ELSE out = t

\* C10: recursive_convert_from changes nothing except container kind and
\* naive timestamps: dicts are rebuilt with the same keys, lists, tuples
\* and sets become lists, naive timestamps get UTC, and every other value
\* at any depth (binary, UUID, enum member, string, number, null, record)
\* is returned unchanged.
C10_FromChangesOnlyKindAndNaive == pc = "from" => ReadBack(ArgTree, RetTree)

\* a tuple of a UUID binary and a naive timestamp has been read back
C10_Witness ==
  /\ pc = "from"
  /\ ArgTree.kind = "tuple"
  /\ Len(ArgTree.elems) = 2
  /\ ArgTree.elems[1].kind = "binary"
  /\ IsNaive(ArgTree.elems[2])
  /\ RetTree.kind = "list"
  /\ RetTree.elems[1] = ArgTree.elems[1]

-----------------------------------------------------------------------------
\* Mappings: keys and values

\* the value tree that a call recursive_convert_from(t) of its own returns
FromTree(t) ==
  LET l == Load(<< >>, t)
      r == recursive_convert_from(l.h, l.v)
  IN  Deref(r.h, r.v)

\* C20: for every mapping D, recursive_convert_to(D) and
\* recursive_convert_from(D) are mappings with exactly the keys of D, in
\* which the value under each key k is the conversion of D[k]: keys are
\* never converted, renamed, added or dropped.
C20_DictKeysKept ==
  (pc \in {"to", "from"} /\ ArgTree.kind = "dict") =>
    /\ RetTree.kind = "dict"
    /\ RetTree.keys = ArgTree.keys
    /\ Len(RetTree.vals) = Len(ArgTree.keys)
    /\ \A i \in 1..Len(ArgTree.keys) :
         RetTree.vals[i] = IF pc = "to" THEN ToTree(ArgTree.vals[i])
                                        ELSE FromTree(ArgTree.vals[i])

\* a mapping with the keys field_one and b, holding a UUID under the key
\* that is also a field name with an alias, has been converted for storage
C20_Witness ==
  /\ pc = "to"
  /\ ArgTree.kind = "dict"
  /\ ArgTree.keys = << "field_one", "b" >>
  /\ ArgTree.vals[1].kind = "uuid"
  /\ RetTree.keys = << "field_one", "b" >>
  /\ RetTree.vals[1].kind = "binary"

-----------------------------------------------------------------------------
(***************************************************************************)
(* Lists and tuples.                                                       *)
(***************************************************************************)
IsSequenceArg == ArgTree.kind \in {"list", "tuple"}

\* the conversion, by a call of its own, of the value tree t by the converter
\* that has run
ConvertedAlone(t) == IF pc = "to" THEN ToTree(t) ELSE FromTree(t)

\* C21: for every list or tuple L, recursive_convert_to(L) and
\* recursive_convert_from(L) are lists of the length of L whose i-th element
\* is the conversion of the i-th element of L: the order is kept and a tuple
\* comes back as a list, never as a tuple.
C21_SequenceElementwise ==
  (pc \in {"to", "from"} /\ IsSequenceArg) =>
    /\ RetTree.kind = "list"
    /\ Len(RetTree.elems) = Len(ArgTree.elems)
    /\ \A i \in 1..Len(ArgTree.elems) :
         RetTree.elems[i] = ConvertedAlone(ArgTree.elems[i])

\* a tuple of a UUID and a naive timestamp has been converted for storage:
\* the result is a list of the binary and then the UTC timestamp
C21_Witness ==
  /\ pc = "to"
  /\ ArgTree.kind = "tuple"
  /\ Len(ArgTree.elems) = 2
  /\ ArgTree.elems[1].kind = "uuid"
  /\ ArgTree.elems[2] = Datetime(T1, "none")
  /\ RetTree.kind = "list"
  /\ RetTree.elems[1].kind = "binary"
  /\ RetTree.elems[2] = Datetime(T1, "utc")

-----------------------------------------------------------------------------
\* how many times the value w occurs in the sequence s
Count(s, w) == Cardinality({ i \in 1..Len(s) : s[i] = w })

\* C22: converting a set does not remove the duplicates the conversion
\* creates: for every set S, recursive_convert_to(S) has exactly as many
\* elements as S, each value occurring once for every element of S that
\* converts to it; when two distinct elements of S convert to equal values
\* the result holds that value twice.
C22_SetKeepsConversionDuplicates ==
  (pc = "to" /\ ArgTree.kind = "set") =>
    /\ Len(RetTree.elems) = Len(ArgTree.elems)
    /\ \A i \in 1..Len(ArgTree.elems) :
         LET w == ToTree(ArgTree.elems[i]) IN
         Count(RetTree.elems, w) =
           Cardinality({ j \in 1..Len(ArgTree.elems) : ToTree(ArgTree.elems[j]) = w })

\* the set of MyEnum.A and the string "a" has been converted: the result is
\* the list of "a" and "a"
C22_Witness ==
  /\ pc = "to"
  /\ ArgTree.kind = "set"
  /\ Range(ArgTree.elems) = {MyEnumA, StrV("a")}
  /\ RetTree = ListObj(<< StrV("a"), StrV("a") >>)

-----------------------------------------------------------------------------
(***************************************************************************)
(* Converting what has been converted.                                     *)
(***************************************************************************)
\* both converters leave the value tree t as it is
Stable(t) == FromTree(t) = t /\ ToTree(t) = t

\* the value tree t is in storage form: dicts and lists of numbers, strings,
\* booleans, None, binaries, aware timestamps and values of types the
\* converters do not know
RECURSIVE StorageForm(_)
StorageForm(t) ==
  IF t.kind \in {"dict", "list"}
  THEN \A i \in 1..Len(Children(t)) : StorageForm(Children(t)[i])
  ELSE \/ t.kind \in {"int", "str", "bool", "none", "binary", "other"}
       \/ IsAware(t)

\* every enumerated constant in the value tree t has a value in storage form
RECURSIVE EnumValuesStored(_)
EnumValuesStored(t) ==
  IF t.kind = "enum" THEN StorageForm(t.value)
  ELSE IsContainer(t) => \A i \in 1..Len(Children(t)) : EnumValuesStored(Children(t)[i])

\* C24 as stated: reading back what was written is stable: for every value
\* v, recursive_convert_from(recursive_convert_to(v)) and
\* recursive_convert_to(recursive_convert_to(v)) equal
\* recursive_convert_to(v), an enumerated constant whose value is a UUID, a
\* tuple or a naive timestamp included.
C24_ConvertedIsStable == pc = "to" => Stable(RetTree)

\* C24: what recursive_convert_to returns is left as it is by both
\* converters exactly when it is in storage form, and it is in storage form
\* whenever every enum value of the argument is; a value in storage form is
\* changed by neither converter.  The value of an enumerated constant is
\* returned unconverted, so a second call converts it: a UUID value is
\* changed by recursive_convert_to, a tuple or a naive timestamp value by
\* both converters.
C24_StableButEnumValues ==
  /\ pc = "to" => (Stable(RetTree) <=> StorageForm(RetTree))
  /\ (pc = "to" /\ EnumValuesStored(ArgTree)) => Stable(RetTree)
  /\ (pc \in {"to", "from"} /\ StorageForm(ArgTree)) => RetTree = ArgTree
  /\ (pc = "to" /\ ArgTree.kind = "enum" /\ ArgTree.value.kind = "uuid") =>
       /\ ToTree(RetTree) = from_uuid(ArgTree.value)
       /\ FromTree(RetTree) = RetTree
  /\ (pc = "to" /\ ArgTree.kind = "enum" /\ ArgTree.value.kind = "tuple") =>
       /\ ToTree(RetTree).kind = "list"
       /\ FromTree(RetTree).kind = "list"

\* a list of a UUID and a naive timestamp has been converted, and converting
\* the result again, either way, returns its equal
C24_Witness ==
  /\ pc = "to"
  /\ ArgTree = ListObj(<< UUID(6), Datetime(T1, "none") >>)
  /\ RetTree = ListObj(<< from_uuid(UUID(6)), Datetime(T1, "utc") >>)
  /\ ToTree(RetTree) = RetTree
  /\ FromTree(RetTree) = RetTree

-----------------------------------------------------------------------------
(***************************************************************************)
(* The driver's collection and the document model, as the handle uses      *)
(* them.  Documents and arguments are value trees.                         *)
(***************************************************************************)
\* how many documents the collection may hold
MaxDocs == 2

\* the wall clock of UTC at the instant of the timestamp v; the driver reads
\* a naive timestamp as UTC
UtcWall(v) ==
  LET hours == v.wall.day * 24 + v.wall.hour - UtcOffset(v.tzinfo)
  IN  [v.wall EXCEPT !.day = hours \div 24, !.hour = hours % 24]

\* the document the driver hands back for a stored one: a timestamp comes
\* back as its UTC wall clock, aware or naive as the client's tz_aware says
DriverDecode(doc, tz_aware) ==
  [doc EXCEPT !.vals = [i \in 1..Len(doc.vals) |->
      IF doc.vals[i].kind = "datetime"
      THEN Datetime(UtcWall(doc.vals[i]), IF tz_aware THEN "utc" ELSE "none")
      ELSE doc.vals[i]]]

\* two stored values are the same value: timestamps by their instant
SameStored(a, b) ==
  IF a.kind = "datetime" /\ b.kind = "datetime" THEN UtcWall(a) = UtcWall(b)
  ELSE a = b

\* the document matches the filter: every key of the filter is a field of
\* the document with that value
Matches(doc, filter) ==
  \A i \in 1..Len(filter.keys) :
    /\ HasKey(doc, filter.keys[i])
    /\ SameStored(Lookup(doc, filter.keys[i]), filter.vals[i])

Matching(c, filter) == { i \in 1..Len(c) : Matches(c[i], filter) }
First(S) == CHOOSE i \in S : \A j \in S : i <= j

\* Collection.find: the stored documents that match, in collection order
DriverFind(c, filter) == SelectSeq(c, LAMBDA d : Matches(d, filter))

\* Collection.find_one: the first stored document that matches, or None
DriverFindOne(c, filter) ==
  IF Matching(c, filter) = {} THEN NoneV ELSE c[First(Matching(c, filter))]

DuplicateKeyError == [kind |-> "error", type |-> "DuplicateKeyError", msg |-> "_id"]

\* Collection.insert_one: the document is added unless its _id is taken
DriverInsertOne(c, doc) ==
  IF \E i \in 1..Len(c) : HasKey(doc, "_id") /\ Lookup(c[i], "_id") = Lookup(doc, "_id")
  THEN [c |-> c, ret |-> DuplicateKeyError]
  ELSE [c |-> Append(c, doc), ret |-> [kind |-> "inserted", n |-> 1]]

RECURSIVE DriverInsertMany(_, _)
\* Collection.insert_many, ordered: one by one, stopping at the first error
DriverInsertMany(c, docs) ==
  IF docs = << >> THEN [c |-> c, ret |-> [kind |-> "inserted", n |-> 0]]
  ELSE LET one == DriverInsertOne(c, Head(docs)) IN
       IF IsError(one.ret) THEN one
       ELSE LET rest == DriverInsertMany(one.c, Tail(docs)) IN
            IF IsError(rest.ret) THEN rest
            ELSE [c |-> rest.c, ret |-> [kind |-> "inserted", n |-> rest.ret.n + 1]]

\* {"$set": {...}} applied to a document: the named fields get the new values
ApplySet(doc, update) ==
  LET fields == Lookup(update, "$set") IN
  [doc EXCEPT !.vals = [i \in 1..Len(doc.vals) |->
      IF HasKey(fields, doc.keys[i]) THEN Lookup(fields, doc.keys[i]) ELSE doc.vals[i]]]

\* Collection.update_one / update_many: the first, or every, matching document
DriverUpdate(c, filter, update, many) ==
  LET hit == IF many \/ Matching(c, filter) = {} THEN Matching(c, filter)
             ELSE {First(Matching(c, filter))}
  IN  [c |-> [i \in 1..Len(c) |-> IF i \in hit THEN ApplySet(c[i], update) ELSE c[i]],
       ret |-> [kind |-> "updated", n |-> Cardinality(hit)]]

\* Collection.delete_one / delete_many
DriverDelete(c, filter, many) ==
  LET hit == IF many \/ Matching(c, filter) = {} THEN Matching(c, filter)
             ELSE {First(Matching(c, filter))}
      keep(d) == \A i \in hit : c[i] # d
  IN  [c |-> SelectSeq(c, keep), ret |-> [kind |-> "deleted", n |-> Cardinality(hit)]]

\* the declared type of each field of the document models
FieldTypes(cls) ==
  CASE cls = "MyModel" -> << "str", "int" >>
    [] cls = "UserModel" -> << "uuid", "str", "datetime" >>

ValidationError == [kind |-> "error", type |-> "ValidationError", msg |-> "model_validate"]

\* pydantic's reading of one field: a UUID field takes the bytes of a binary
CoerceField(type, v) ==
  IF type = "uuid" /\ v.kind = "binary" /\ Len(v.data) = UuidLen
  THEN UUID(IntFromBytes(v.data))
  ELSE v

FieldOK(type, v) == v.kind = type

\* M.model_validate(doc): the record of class cls read from a mapping keyed
\* by alias, or a validation error.  A stored document holds every field of
\* the model that wrote it, so no default_factory is ever needed
model_validate(cls, doc) ==
  LET aliases == FieldAliases(cls)
      types == FieldTypes(cls)
      vals == [i \in 1..Len(aliases) |->
                 IF HasKey(doc, aliases[i])
                 THEN CoerceField(types[i], Lookup(doc, aliases[i]))
                 ELSE Unset]
  IN  IF \A i \in 1..Len(aliases) : FieldOK(types[i], vals[i])
      THEN ModelObj(cls, vals)
      ELSE ValidationError

-----------------------------------------------------------------------------
(***************************************************************************)
(* The operations of SyncMongoCollection.                                  *)
(***************************************************************************)
U1 == UUID(1)
U6 == UUID(6)

\* the records the callers insert: UserModel(id, name, created_at), with a
\* naive, a UTC and a Moscow timestamp
UserName(u) == IF u = U1 THEN "Alice" ELSE "Bob"
Users ==
  { ModelObj("UserModel", << u, StrV(UserName(u)), t >>) :
      u \in {U1, U6},
      t \in {Datetime(T1, "none"), Datetime(T1, "utc"), Datetime(T2, "msk")} }

\* the records insert_many gets lists of
ManyUsers == { r \in Users : r.vals[3] = Datetime(T1, "none") }

ById(u) == DictObj(<< "_id" >>, << u >>)

\* the filters: by identity, by name, and the empty filter
Filters ==
  { ById(U1), ById(U6), DictObj(<< "name" >>, << StrV("Bob") >>), DictObj(<< >>, << >>) }

\* the updates: a new name and a new naive timestamp
Updates ==
  { DictObj(<< "$set" >>,
            << DictObj(<< "name", "created_at" >>,
                       << StrV("Carol"), Datetime(T2, "none") >>) >>) }

\* array_filters: the default None, or a list of filters on array elements
ArrayFilters == { NoneV, ListObj(<< DictObj(<< "e.owner" >>, << U6 >>) >>) }

\* the operations below are those of a SyncMongoCollection
IsSync(h) == handles[h].made /\ handles[h].cls = "SyncMongoCollection"

\* cls(collection=...) or cls[M](collection=...)
Construct(h, cls, param) ==
  /\ ~handles[h].made
  /\ handles' = [handles EXCEPT ![h] = NewHandle(cls, param)]
  /\ last' = Trace("construct", h, Args(Unset, Unset, Unset), Unset, Unset, Unset,
                   [kind |-> "handle", h |-> h])
  /\ UNCHANGED << coll, gens, convVars, threads, clientVars >>

\* handle._document_model
AccessDocumentModel(h) ==
  /\ handles[h].made
  /\ handles[h].reads < MaxReads
  /\ LET r == document_model(handles[h]) IN
       /\ handles' = [handles EXCEPT ![h] = r.hd]
       /\ last' = Trace("_document_model", h, Args(Unset, Unset, Unset), Unset, Unset,
                        Unset, r.val)
  /\ UNCHANGED << coll, gens, convVars, threads, clientVars >>

\* handle.insert_one(document)
insert_one(h, document) ==
  /\ IsSync(h)
  /\ Len(coll) < MaxDocs
  /\ LET sent == Args(Unset, ToTree(document), Unset)
         d == DriverInsertOne(coll, sent.payload)
     IN  /\ coll' = d.c
         /\ last' = Trace("insert_one", h, Args(Unset, document, Unset), sent, Unset,
                          Unset, d.ret)
  /\ UNCHANGED << handles, gens, convVars, threads, clientVars >>

\* handle.insert_many(documents)
insert_many(h, documents) ==
  /\ IsSync(h)
  /\ Len(coll) + Len(documents) <= MaxDocs
  /\ LET sent == Args(Unset,
                      ListObj([i \in 1..Len(documents) |-> ToTree(documents[i])]),
                      Unset)
         d == DriverInsertMany(coll, sent.payload.elems)
     IN  /\ coll' = d.c
         /\ last' = Trace("insert_many", h, Args(Unset, ListObj(documents), Unset), sent,
                          Unset, Unset, d.ret)
  /\ UNCHANGED << handles, gens, convVars, threads, clientVars >>

\* handle.find_one(filter)
find_one(h, filter, tz_aware) ==
  /\ IsSync(h)
  /\ handles[h].reads < MaxReads
  /\ LET sent == Args(ToTree(filter), Unset, Unset)
         found == DriverFindOne(coll, sent.filter)
         raw_result == IF found = NoneV THEN NoneV ELSE DriverDecode(found, tz_aware)
         m == document_model(handles[h])
     IN  IF raw_result = NoneV THEN
           /\ last' = Trace("find_one", h, Args(filter, Unset, Unset), sent, raw_result,
                            Unset, NoneV)
           /\ UNCHANGED handles
         ELSE IF IsError(m.val) THEN
           /\ last' = Trace("find_one", h, Args(filter, Unset, Unset), sent, raw_result,
                            Unset, m.val)
           /\ handles' = [handles EXCEPT ![h] = m.hd]
         ELSE
           /\ last' = Trace("find_one", h, Args(filter, Unset, Unset), sent, raw_result,
                            FromTree(raw_result),
                            model_validate(m.val.name, FromTree(raw_result)))
           /\ handles' = [handles EXCEPT ![h] = m.hd]
  /\ UNCHANGED << coll, gens, convVars, threads, clientVars >>

\* handle.find(filter): a generator function, so the call runs none of its
\* body and returns the generator object g
find(h, filter, g) ==
  /\ IsSync(h)
  /\ gens[g].state = "none"
  /\ gens' = [gens EXCEPT ![g] = [state |-> "created", h |-> h, filter |-> filter,
                                  cursor |-> << >>, queries |-> 0]]
  /\ last' = Trace("find", h, Args(filter, Unset, Unset), Unset, Unset, Unset,
                   [kind |-> "generator", g |-> g])
  /\ UNCHANGED << handles, coll, convVars, threads, clientVars >>

StopIteration == [kind |-> "error", type |-> "StopIteration", msg |-> ""]

\* a generator that starts over when its loop ends
Rewound(gen) == [gen EXCEPT !.state = "created", !.cursor = << >>]

\* the body of find has returned or raised: the generator is finished
Exhausted(gen) == [gen EXCEPT !.state = "done", !.cursor = << >>]

\* next(g): the body of find runs to its next yield.  The first time it
\* starts with cursor = self.c.find(...); then the loop takes the next raw
\* document, or ends the generator
next(g, tz_aware) ==
  LET gen == gens[g]
      h == gen.h
      starting == gen.state = "created"
      sent == IF starting THEN Args(ToTree(gen.filter), Unset, Unset) ELSE Unset
      found == IF starting THEN DriverFind(coll, sent.filter) ELSE gen.cursor
      cursor == [i \in 1..Len(found) |->
                   IF starting THEN DriverDecode(found[i], tz_aware) ELSE found[i]]
      m == document_model(handles[h])
      queried == [gen EXCEPT !.queries = IF starting THEN @ + 1 ELSE @]
  IN
  /\ gen.state # "none"
  /\ tz_aware => starting
  /\ IF gen.state = "done" THEN
       /\ last' = Trace("next", g, Args(gen.filter, Unset, Unset), Unset, Unset, Unset,
                        StopIteration)
       /\ UNCHANGED << gens, handles >>
     ELSE IF cursor = << >> THEN
       /\ gens' = [gens EXCEPT ![g] = Exhausted(queried)]
       /\ last' = Trace("next", g, Args(gen.filter, Unset, Unset), sent, Unset, Unset,
                        StopIteration)
       /\ UNCHANGED handles
     ELSE IF IsError(m.val) THEN
       /\ handles[h].reads < MaxReads
       /\ gens' = [gens EXCEPT ![g] = Exhausted(queried)]
       /\ handles' = [handles EXCEPT ![h] = m.hd]
       /\ last' = Trace("next", g, Args(gen.filter, Unset, Unset), sent, Head(cursor),
                        Unset, m.val)
     ELSE
       /\ gens' = [gens EXCEPT ![g] = [queried EXCEPT !.state = "running",
                                                       !.cursor = Tail(cursor)]]
       /\ handles' = [handles EXCEPT ![h] = m.hd]
       /\ last' = Trace("next", g, Args(gen.filter, Unset, Unset), sent, Head(cursor),
                        FromTree(Head(cursor)),
                        model_validate(m.val.name, FromTree(Head(cursor))))
  /\ UNCHANGED << coll, convVars, threads, clientVars >>

\* handle.update_one(filter, update, array_filters=...) and update_many
update(h, filter, upd, array_filters, many) ==
  /\ IsSync(h)
  /\ LET sent == Args(ToTree(filter), ToTree(upd), array_filters)
         d == DriverUpdate(coll, sent.filter, sent.payload, many)
     IN  /\ coll' = d.c
         /\ last' = Trace(IF many THEN "update_many" ELSE "update_one", h,
                          Args(filter, upd, array_filters), sent, Unset, Unset, d.ret)
  /\ UNCHANGED << handles, gens, convVars, threads, clientVars >>

update_one(h, filter, upd, array_filters) == update(h, filter, upd, array_filters, FALSE)
update_many(h, filter, upd, array_filters) == update(h, filter, upd, array_filters, TRUE)

\* handle.delete_one(filter) and delete_many
delete(h, filter, many) ==
  /\ IsSync(h)
  /\ LET sent == Args(ToTree(filter), Unset, Unset)
         d == DriverDelete(coll, sent.filter, many)
     IN  /\ coll' = d.c
         /\ last' = Trace(IF many THEN "delete_many" ELSE "delete_one", h,
                          Args(filter, Unset, Unset), sent, Unset, Unset, d.ret)
  /\ UNCHANGED << handles, gens, convVars, threads, clientVars >>

delete_one(h, filter) == delete(h, filter, FALSE)
delete_many(h, filter) == delete(h, filter, TRUE)

\* no handle exists yet and the collection is empty
InitHandles == ConvertersUnused /\ FacadeUnused /\ ThreadsUnused /\ ClientsUnused

Alice == ModelObj("UserModel", << U1, StrV("Alice"), Datetime(T1, "utc") >>)

\* handles are made, with and without a type parameter, and used
NextHandles ==
  \/ \E h \in Handles, cls \in HandleClasses, param \in DocumentTypes \cup {"none"} :
       Construct(h, cls, param)
  \/ \E h \in Handles : AccessDocumentModel(h)
  \/ \E h \in Handles : insert_one(h, Alice)
  \/ \E h \in Handles, u \in {U1, U6}, tz_aware \in BOOLEAN :
       find_one(h, ById(u), tz_aware)

SpecHandles == InitHandles /\ [][NextHandles]_vars

\* one handle has been made, with or without a type parameter, over an
\* empty collection
InitFacade ==
  /\ ConvertersUnused /\ ThreadsUnused /\ ClientsUnused
  /\ \E param \in DocumentTypes \cup {"none"} :
       handles = [h \in Handles |-> IF h = "h1" THEN NewHandle("SyncMongoCollection", param)
                                ELSE NoHandle]
  /\ coll = << >>
  /\ gens = [g \in Generators |-> NoGenerator]
  /\ last = NoTrace

NextFacade ==
  \/ \E h \in Handles, document \in Users : insert_one(h, document)
  \/ \E h \in Handles, n \in 1..MaxDocs : \E documents \in [1..n -> ManyUsers] :
       insert_many(h, documents)
  \/ \E h \in Handles, filter \in Filters, tz_aware \in BOOLEAN :
       find_one(h, filter, tz_aware)
  \/ \E h \in Handles, filter \in Filters, upd \in Updates, af \in ArrayFilters :
       update_one(h, filter, upd, af)
  \/ \E h \in Handles, filter \in Filters, upd \in Updates, af \in ArrayFilters :
       update_many(h, filter, upd, af)
  \/ \E h \in Handles, filter \in Filters : delete_one(h, filter)
  \/ \E h \in Handles, filter \in Filters : delete_many(h, filter)

SpecFacade == InitFacade /\ [][NextFacade]_vars

\* the filters of the reads: the empty filter and one identity
FindFilters == { DictObj(<< >>, << >>), ById(U1) }

\* documents are inserted, and read one at a time and through generators
NextFind ==
  \/ \E h \in Handles, document \in ManyUsers : insert_one(h, document)
  \/ \E h \in Handles, filter \in FindFilters, tz_aware \in BOOLEAN :
       find_one(h, filter, tz_aware)
  \/ \E h \in Handles, filter \in FindFilters, g \in Generators : find(h, filter, g)
  \/ \E g \in Generators, tz_aware \in BOOLEAN : next(g, tz_aware)

SpecFind == InitFacade /\ [][NextFind]_vars

-----------------------------------------------------------------------------
\* The document type of a handle

\* the handle h was made from a subscripted class
Parameterized(h) == handles[h].made /\ handles[h].orig_class # Unset

\* the type argument the handle h was made with
TypeArgument(h) == ClassV(handles[h].orig_class.args[1])

\* C11: for a handle made as SyncMongoCollection[M](collection=...) or
\* AsyncMongoCollection[M](collection=...), _document_model returns exactly
\* M, the first type argument, and M is what the handle keeps as its
\* document type.
C11_DocumentModelIsTypeArgument ==
  \A h \in Handles :
    Parameterized(h) =>
      /\ handles[h].memo \in {Unset, TypeArgument(h)}
      /\ (last.op = "_document_model" /\ last.on = h) => last.ret = TypeArgument(h)

\* _document_model of a SyncMongoCollection[MyModel] has returned MyModel
\* while the other handle is an AsyncMongoCollection[UserModel]
C11_Witness ==
  /\ last.op = "_document_model"
  /\ last.on = "h2"
  /\ handles["h2"].orig_class = GenericAlias("SyncMongoCollection", << "MyModel" >>)
  /\ last.ret = ClassV("MyModel")
  /\ handles["h1"].orig_class = GenericAlias("AsyncMongoCollection", << "UserModel" >>)

\* the handle h was made from the bare class
Unparameterized(h) == handles[h].made /\ handles[h].orig_class = Unset

\* C12: making a handle without a type parameter succeeds; the failure
\* comes only when the document type is first needed: reading
\* _document_model, or a read that has a document to reconstruct, raises a
\* TypeError that says the document model cannot be determined and asks to
\* parameterize the class.  Writes, and reads that find nothing, do not fail.
C12_UnparameterizedFailsLazily ==
  /\ last.op = "construct" =>
       handles[last.on].made /\ last.ret = [kind |-> "handle", h |-> last.on]
  /\ \A h \in Handles :
       (Unparameterized(h) /\ last.on = h) =>
         /\ last.op = "_document_model" => last.ret = TypeError(MsgNotParameterized)
         /\ last.op = "find_one" =>
              last.ret = IF last.raw = NoneV THEN NoneV
                         ELSE TypeError(MsgNotParameterized)
         /\ last.op = "insert_one" => (IsError(last.ret) => last.ret.type # "TypeError")

\* find_one on a bare SyncMongoCollection has found a document and raised
C12_Witness ==
  /\ last.op = "find_one"
  /\ Unparameterized(last.on)
  /\ handles[last.on].cls = "SyncMongoCollection"
  /\ last.raw # NoneV
  /\ last.ret = TypeError(MsgNotParameterized)

\* C13: the document type of a handle is resolved at most once: once an
\* access has succeeded, every later access returns the same type and does
\* not run the body (does not read the generic metadata) again, the type
\* kept never changes, and the memo is the handle's own: an operation on one
\* handle never sets or changes the memo of another.
C13_ResolvedOncePerHandle ==
  [][\A h \in Handles :
       /\ (Parameterized(h) /\ handles[h].reads >= 1) =>
            /\ handles[h].memo = TypeArgument(h)
            /\ handles'[h].memo = handles[h].memo
            /\ handles'[h].reads = handles[h].reads
            /\ (last'.op = "_document_model" /\ last'.on = h) => last'.ret = handles[h].memo
       /\ handles'[h] # handles[h] => last'.on = h]_vars

\* both handles have resolved their type, each its own, by one run of the
\* body each
C13_Witness ==
  /\ handles["h1"].memo = ClassV("UserModel")
  /\ handles["h2"].memo = ClassV("MyModel")
  /\ handles["h1"].reads = 1
  /\ handles["h2"].reads = 1
  /\ last.op = "_document_model"
  /\ last.ret = ClassV("MyModel")

-----------------------------------------------------------------------------
(***************************************************************************)
(* Threads that read _document_model of handles at the same time.  The     *)
(* cached property takes no lock: a thread looks in the instance dict,     *)
(* runs the body on a miss, stores the value and returns it, and another   *)
(* thread can run between any two of these steps.  (A cached_property      *)
(* that locks allows a subset of these interleavings.)                     *)
(***************************************************************************)
\* the handles exist, made with or without a type parameter; no thread is
\* inside the property
InitThreads ==
  /\ ConvertersUnused /\ ClientsUnused
  /\ \E p1, p2 \in DocumentTypes \cup {"none"} :
       handles = [h \in Handles |->
                    NewHandle("SyncMongoCollection", IF h = "h1" THEN p1 ELSE p2)]
  /\ coll = << >>
  /\ gens = [g \in Generators |-> NoGenerator]
  /\ last = NoTrace
  /\ ThreadsUnused

\* the thread t starts to read h._document_model
Begin(t, h) ==
  /\ threads[t].pc \in {"idle", "done"}
  /\ threads' = [threads EXCEPT ![t] = [pc |-> "lookup", h |-> h, val |-> Unset,
                                        ret |-> Unset]]
  /\ UNCHANGED << facadeVars, convVars, clientVars >>

\* val = cache.get(attrname): a hit is returned, a miss goes on to the body
LookupMemo(t) ==
  LET hd == handles[threads[t].h] IN
  /\ threads[t].pc = "lookup"
  /\ threads' = [threads EXCEPT ![t] =
                   IF hd.memo # Unset THEN [@ EXCEPT !.pc = "done", !.ret = hd.memo]
                   ELSE [@ EXCEPT !.pc = "body"]]
  /\ UNCHANGED << facadeVars, convVars, clientVars >>

\* val = self.func(instance): the body runs; if it raises the access is over
RunBody(t) ==
  LET h == threads[t].h
      val == Body(handles[h])
  IN
  /\ threads[t].pc = "body"
  /\ handles[h].reads < MaxReads
  /\ handles' = [handles EXCEPT ![h] = BodyRun(@)]
  /\ threads' = [threads EXCEPT ![t] =
                   IF IsError(val) THEN [@ EXCEPT !.pc = "done", !.ret = val]
                   ELSE [@ EXCEPT !.pc = "store", !.val = val]]
  /\ UNCHANGED << coll, gens, last, convVars, clientVars >>

\* cache[attrname] = val; return val
Store(t) ==
  LET h == threads[t].h IN
  /\ threads[t].pc = "store"
  /\ handles' = [handles EXCEPT ![h] = StoreMemo(@, threads[t].val)]
  /\ threads' = [threads EXCEPT ![t] = [@ EXCEPT !.pc = "done", !.ret = threads[t].val]]
  /\ UNCHANGED << coll, gens, last, convVars, clientVars >>

NextThreads ==
  \/ \E t \in Threads, h \in Handles : Begin(t, h)
  \/ \E t \in Threads : LookupMemo(t)
  \/ \E t \in Threads : RunBody(t)
  \/ \E t \in Threads : Store(t)

SpecThreads == InitThreads /\ [][NextThreads]_vars

\* C14: when two threads read _document_model of the same parameterized
\* handle at the same time, starting with an empty memo, then in every
\* interleaving each of them returns M and the memo holds M afterwards; the
\* memo is never anything but empty or M.
C14_ConcurrentResolveIdempotent ==
  \A h \in Handles :
    Parameterized(h) =>
      /\ handles[h].memo \in {Unset, TypeArgument(h)}
      /\ \A t \in Threads :
           (threads[t].pc = "done" /\ threads[t].h = h) =>
             /\ threads[t].ret = TypeArgument(h)
             /\ handles[h].memo = TypeArgument(h)

\* both threads missed the memo of h1, both ran the body, and both are done
C14_Witness ==
  /\ Parameterized("h1")
  /\ \A t \in Threads : threads[t].pc = "done" /\ threads[t].h = "h1"
  /\ handles["h1"].reads = 2
  /\ \A t \in Threads : threads[t].ret = TypeArgument("h1")
  /\ handles["h1"].memo = TypeArgument("h1")

-----------------------------------------------------------------------------
\* What the operations hand to the driver

\* the driver got y for the argument x: nothing for an argument not given,
\* and otherwise what recursive_convert_to(x) returns
SentConverted(x, y) == IF x = Unset THEN y = Unset ELSE y = ToTree(x)

\* C15: for every operation of the handle, every filter argument and every
\* write payload reaches the driver only as the result of
\* recursive_convert_to; no filter-like argument, the array_filters of
\* update_one and update_many included, is handed to the driver unconverted.
C15_AllArgumentsConverted ==
  last.sent # Unset =>
    /\ SentConverted(last.args.filter, last.sent.filter)
    /\ SentConverted(last.args.payload, last.sent.payload)
    /\ SentConverted(last.args.array_filters, last.sent.array_filters)

-----------------------------------------------------------------------------
\* What the reads return

\* the handle a read was made on: find_one directly, next through its generator
ReadHandle == IF last.op = "next" THEN gens[last.on].h ELSE last.on

\* C16: every document find_one and find return is the validation, against
\* the resolved document type of the handle, of recursive_convert_from
\* applied to the raw document of the driver; find_one returns None, and
\* validates nothing, exactly when the driver finds no match.
C16_ReadsValidateConverted ==
  last.op \in {"find_one", "next"} =>
    /\ last.ret.kind = "model" =>
         /\ last.raw.kind = "dict"
         /\ last.validated = FromTree(last.raw)
         /\ ReadBack(last.raw, last.validated)
         /\ last.ret.cls = TypeArgument(ReadHandle).name
         /\ last.ret = model_validate(TypeArgument(ReadHandle).name, last.validated)
    /\ last.op = "find_one" =>
         /\ last.ret = NoneV <=> Matching(coll, last.sent.filter) = {}
         /\ last.ret = NoneV => (last.raw = NoneV /\ last.validated = Unset)

\* a generator of find has yielded a record whose raw document held a naive
\* timestamp
C16_Witness ==
  /\ last.op = "next"
  /\ last.ret.kind = "model"
  /\ last.ret.cls = "UserModel"
  /\ IsNaive(Lookup(last.raw, "created_at"))
  /\ IsAware(last.ret.vals[3])
  /\ last.ret.vals[1].kind = "uuid"

\* the documents a query with the filter f can return from the collection
QueryResults(f) ==
  { DriverDecode(d, tz_aware) : d \in Range(DriverFind(coll, f)), tz_aware \in BOOLEAN }

\* C17: find is lazy and single-pass.  Calling find issues no driver query
\* and converts no document; the query is issued when iteration starts, once
\* per generator and on the collection as it is then; each step of the
\* iteration converts the one document it reaches and moves forward; an
\* exhausted generator yields nothing more and never queries again; every
\* new call of find gives a generator that issues a query of its own.
C17_FindLazySinglePass ==
  [][/\ last'.op = "find" =>
          /\ last'.sent = Unset /\ last'.raw = Unset /\ last'.validated = Unset
          /\ gens'[last'.ret.g].state = "created"
          /\ gens'[last'.ret.g].queries = 0
     /\ \A g \in Generators :
          /\ gens'[g].queries <= 1
          /\ gens'[g].queries = 1 <=> gens'[g].state \in {"running", "done"}
          /\ gens'[g] # gens[g] => (last'.on = g \/ last'.ret = [kind |-> "generator", g |-> g])
          /\ (last'.op = "next" /\ last'.on = g /\ gens[g].state = "created") =>
               /\ last'.sent = Args(ToTree(gens[g].filter), Unset, Unset)
               /\ gens'[g].queries = 1
               /\ last'.ret.kind = "model" => last'.raw \in QueryResults(last'.sent.filter)
               /\ last'.ret = StopIteration <=> QueryResults(last'.sent.filter) = {}
          /\ (last'.op = "next" /\ last'.on = g /\ gens[g].state = "running") =>
               /\ last'.sent = Unset
               /\ IF gens[g].cursor = << >> THEN last'.ret = StopIteration
                  ELSE /\ last'.raw = Head(gens[g].cursor)
                       /\ gens'[g].cursor = Tail(gens[g].cursor)
                       /\ last'.validated = FromTree(last'.raw)
          /\ gens[g].state = "done" =>
               /\ gens'[g] = gens[g]
               /\ (last'.op = "next" /\ last'.on = g) =>
                    (last'.ret = StopIteration /\ last'.sent = Unset
                       /\ last'.validated = Unset)]_vars

\* the first generator is exhausted after one query; a second call of find
\* has queried again and yielded a document
C17_Witness ==
  /\ gens["g1"].state = "done"
  /\ gens["g1"].queries = 1
  /\ gens["g2"].state = "running"
  /\ gens["g2"].queries = 1
  /\ gens["g2"].h = gens["g1"].h
  /\ gens["g2"].filter = gens["g1"].filter
  /\ last.op = "next"
  /\ last.on = "g2"
  /\ last.ret.kind = "model"

-----------------------------------------------------------------------------
\* Insert, then find

\* a == b of Python for two field values: two timestamps are equal when both
\* are naive with the same wall clock or both are aware at the same instant
PyEqual(a, b) ==
  IF a.kind = "datetime" /\ b.kind = "datetime"
  THEN IsNaive(a) = IsNaive(b) /\ UtcWall(a) = UtcWall(b)
  ELSE a = b

\* two records are equal on every field
RecordsEqual(r, q) ==
  /\ r.kind = "model" /\ q.kind = "model"
  /\ r.cls = q.cls
  /\ \A i \in 1..Len(r.vals) : PyEqual(r.vals[i], q.vals[i])

\* this step is find_one by the identity of the record that the step before
\* it inserted, on the same handle, bound to the model of the record
FindAfterInsert ==
  /\ last.op = "insert_one"
  /\ last.ret.kind = "inserted"
  /\ Parameterized(last.on)
  /\ TypeArgument(last.on) = ClassV(last.args.payload.cls)
  /\ last'.op = "find_one"
  /\ last'.on = last.on
  /\ last'.args.filter = ById(last.args.payload.vals[1])

ReadAsUtc(r) ==
  [r EXCEPT !.vals = [i \in 1..Len(r.vals) |->
     IF r.vals[i].kind = "datetime" THEN Datetime(UtcWall(r.vals[i]), "utc")
     ELSE r.vals[i]]]

-----------------------------------------------------------------------------
(***************************************************************************)
(* MongoClient: the registry of driver clients.  _a_mongo_clients and      *)
(* _mongo_clients are dicts of the class, keyed by hash(config); a wrapper *)
(* keeps nothing but its config.                                           *)
(***************************************************************************)
\* how many driver clients may be constructed
MaxClients == 4

Wrappers == {"w1", "w2", "w3"}

KeyError(key) == [kind |-> "error", type |-> "KeyError", msg |-> key]

\* OriginalMongoClient(url) / OriginalAsyncMongoClient(url): the n-th driver
\* client object constructed
NewClient(cls, cfg, n) == [kind |-> "client", cls |-> cls, cfg |-> cfg, id |-> n]

\* key not in d, d[key]
NotIn(key, d) == d[key] = Unset
GetItem(d, key) == IF d[key] = Unset THEN KeyError(key) ELSE d[key]

\* what an access returned
Got(prop, w, cfg, r) == [prop |-> prop, w |-> w, cfg |-> cfg, ret |-> r]

InitClients == ConvertersUnused /\ FacadeUnused /\ ThreadsUnused /\ ClientsUnused

\* MongoClient(config=cfg)._a_mongo_client, on the wrapper w
a_mongo_client(w, cfg) ==
  LET key == cfg IN
  /\ NotIn(key, a_mongo_clients) => Len(built) < MaxClients
  /\ IF NotIn(key, a_mongo_clients) THEN
       /\ built' = Append(built, NewClient("AsyncMongoClient", cfg, Len(built) + 1))
       /\ a_mongo_clients' = [a_mongo_clients EXCEPT ![key] = built'[Len(built')]]
     ELSE UNCHANGED << built, a_mongo_clients >>
  /\ got' = Got("_a_mongo_client", w, cfg, GetItem(a_mongo_clients', key))
  /\ UNCHANGED << mongo_clients, convVars, facadeVars, threads >>

\* MongoClient(config=cfg)._mongo_client, on the wrapper w: the test is on
\* the registry of the async clients
mongo_client(w, cfg) ==
  LET key == cfg IN
  /\ NotIn(key, a_mongo_clients) => Len(built) < MaxClients
  /\ IF NotIn(key, a_mongo_clients) THEN
       /\ built' = Append(built, NewClient("MongoClient", cfg, Len(built) + 1))
       /\ mongo_clients' = [mongo_clients EXCEPT ![key] = built'[Len(built')]]
     ELSE UNCHANGED << built, mongo_clients >>
  /\ got' = Got("_mongo_client", w, cfg, GetItem(mongo_clients', key))
  /\ UNCHANGED << a_mongo_clients, convVars, facadeVars, threads >>

NextClients ==
  \/ \E w \in Wrappers, cfg \in Configs : a_mongo_client(w, cfg)
  \/ \E w \in Wrappers, cfg \in Configs : mongo_client(w, cfg)

SpecClients == InitClients /\ [][NextClients]_vars

\* the driver clients of the class cls constructed for the configuration cfg
Built(cls, cfg) == { i \in 1..Len(built) : built[i].cls = cls /\ built[i].cfg = cfg }

ClientClass(prop) == IF prop = "_mongo_client" THEN "MongoClient" ELSE "AsyncMongoClient"

\* C19: the registry creates one client per configuration on first use and
\* shares it: for a configuration, in any sequence of accesses to
\* _mongo_client and _a_mongo_client from any number of wrappers, at most
\* one synchronous and at most one asynchronous driver client is ever
\* constructed, and every access of a kind returns the client the first
\* access of that kind returned.
C19_OneClientPerConfig ==
  /\ \A cfg \in Configs, cls \in {"MongoClient", "AsyncMongoClient"} :
       Cardinality(Built(cls, cfg)) <= 1
  /\ got # Unset =>
       /\ got.ret.kind = "client"
       /\ Built(ClientClass(got.prop), got.cfg) # {}
       /\ got.ret = built[First(Built(ClientClass(got.prop), got.cfg))]

\* C23: every access to the synchronous client returns a client: in any
\* interleaving of _a_mongo_client and _mongo_client accesses for one
\* configuration, _mongo_client never fails with a missing registry key.
C23_SyncAccessNeverKeyError ==
  (got # Unset /\ got.prop = "_mongo_client") =>
    /\ ~IsError(got.ret)
    /\ got.ret.kind = "client"
    /\ got.ret.cls = "MongoClient"
    /\ got.ret.cfg = got.cfg

-----------------------------------------------------------------------------
(***************************************************************************)
(* Writes and the document type.                                           *)
(***************************************************************************)
\* every operation of a handle but find, and reads of _document_model
NextWrites ==
  \/ NextFacade
  \/ \E h \in Handles : AccessDocumentModel(h)

SpecWrites == InitFacade /\ [][NextWrites]_vars

WriteOps ==
  {"insert_one", "insert_many", "update_one", "update_many", "delete_one", "delete_many"}

\* C25: write operations never resolve the document type: insert_one,
\* insert_many, update_one, update_many, delete_one and delete_many leave
\* the memo of the handle as it is (unset if it was unset), do not run the
\* body of _document_model, and raise no TypeError on a handle made without
\* a type parameter; on such a handle find_one that matches no document
\* returns None; and a failed resolution is not memoized, so every later
\* access of _document_model runs the body and raises the TypeError again.
C25_WritesNeverResolve ==
  [][/\ last'.op \in WriteOps =>
          /\ handles' = handles
          /\ IsError(last'.ret) => last'.ret.type # "TypeError"
     /\ \A h \in Handles :
          Unparameterized(h) =>
            /\ handles'[h].memo = Unset
            /\ (last'.op = "find_one" /\ last'.on = h /\ last'.raw = NoneV) =>
                 /\ last'.ret = NoneV
                 /\ handles'[h] = handles[h]
            /\ (last'.op = "_document_model" /\ last'.on = h) =>
                 /\ last'.ret = TypeError(MsgNotParameterized)
                 /\ handles'[h].reads = handles[h].reads + 1]_vars

\* on a handle made without a type parameter a document has been inserted
\* and _document_model has raised its TypeError for the second time, the
\* memo still unset
C25_Witness ==
  /\ Unparameterized("h1")
  /\ Len(coll) >= 1
  /\ last.op = "_document_model"
  /\ last.on = "h1"
  /\ last.ret = TypeError(MsgNotParameterized)
  /\ handles["h1"].reads = 2
  /\ handles["h1"].memo = Unset

=============================================================================
